---- MODULE Spec2Model ----
(***************************************************************************)
(* A model of the Aven voice-agent orchestrator (src/src/aven.ts): the     *)
(* connection lifecycle and conversation-turn state machine, the listener  *)
(* registry (on / once / off / emit), the transcript reconciler             *)
(* (handleHistoryUpdate) and executeAction.                                 *)
(*                                                                         *)
(* The instance's fields are the variables.  A handler is translated as a  *)
(* function on a record of the fields it touches (`Cur`), so that the      *)
(* sequential code of a handler reads as a LET chain; the events it        *)
(* publishes are appended to the record's `pub` field in program order.    *)
(* JavaScript is single-threaded: a handler runs to its next `await`       *)
(* without interleaving, so one action is one such run.                     *)
(***************************************************************************)
EXTENDS Integers, Sequences, FiniteSets, TLC

\* ------------------------------------------------------------------ bounds
\* number of external sessions (connect() calls that open one) in a behaviour
MaxSessions == 2

\* items in one transcript snapshot
MaxRaw == 2
\* locally generated message ids (msg_1 .. msg_MaxMsgId)
MaxMsgId == 2
\* readings of the clock
MaxClock == 1

NoSession == 0
SessionIds == 1..MaxSessions

NoError == "null"
NoThrow == [thrown |-> FALSE, isError |-> FALSE, message |-> ""]
Statuses == {"idle", "connecting", "connected", "error"}
ConversationStates == {"idle", "ai_speaking", "user_turn", "user_speaking"}

VARIABLES
    cfg,                \* this.config (the part the lifecycle reads), immutable
    status,             \* this._status
    conversationState,  \* this._conversationState
    error,              \* this._error
    history,            \* this._history
    session,            \* this.session: NoSession (null) or a session id
    autoUpdateTimer,    \* this._autoUpdateTimer # null
    intervals,          \* the intervals set with setInterval and not cleared
    connectedSince,     \* a connected event was published and no disconnected
                        \* event after it
    sess,               \* the external sessions: connect promise and closed flag
    pc,                 \* where each connect() invocation is suspended
    messageIdCounter,   \* this._messageIdCounter
    now,                \* the clock new Date() reads
    published,          \* the events the last handler run published, in order
    sentNow,            \* the messages the last handler run sent to a session
    lastOp,             \* the handler that ran last and its input
    ret,                \* what it returned or raised to its caller
    rawPrev,            \* the transcript the session delivered last
    appendOnly,         \* every transcript so far extended the one before it
    listeners,          \* this.listeners: per event, the Set in insertion order
    stack,              \* the emit() calls in progress, innermost last
    onceOf,             \* the wrappers once() has created
    onceCalls,          \* per wrapper, how often it called its callback
    cancelled,          \* the wrappers removed by off() or removeAllListeners()
    subCount,           \* the subscriptions made so far
    propagated,         \* an exception left emit() for the publisher
    done,               \* the emit() call that returned last
    profile,            \* the class instantiated: "Aven" or "Atticus"
    doNotExecuteActions,\* this.config.doNotExecuteActions, immutable
    tools,              \* the tools the constructor gave to the RealtimeAgent
    given,              \* which fields the object passed to `new` holds
    made,               \* "no" before `new`, then "yes", or "threw"
    actionIdCounter,    \* this._actionIdCounter
    currentDOM,         \* this._currentDOM
    captures,           \* the captureDOM() calls in flight, by caller
    tool                \* the execute_ui_action call in progress

lifeVars == <<cfg, status, conversationState, error, history, session,
              autoUpdateTimer, intervals, sess, pc, messageIdCounter, now,
              published, sentNow, lastOp, ret, connectedSince>>

recVars == <<rawPrev, appendOnly>>

busVars == <<listeners, stack, onceOf, onceCalls, cancelled, subCount,
             propagated, done>>

confVars == <<profile, doNotExecuteActions, tools, given, made>>

domVars == <<actionIdCounter, currentDOM, captures, tool>>

vars == <<lifeVars, recVars, busVars, confVars, domVars>>

\* ------------------------------------------------------- the field record
Cur ==
    [status |-> status, conversationState |-> conversationState,
     error |-> error, history |-> history, session |-> session,
     autoUpdateTimer |-> autoUpdateTimer, intervals |-> intervals,
     sess |-> sess,
     messageIdCounter |-> messageIdCounter,
     pub |-> <<>>, sent |-> <<>>, threw |-> NoThrow]

isConnected(S) == S.status = "connected" /\ S.session # NoSession

isAiSpeaking(S) == S.conversationState = "ai_speaking"

isUserSpeaking(S) == S.conversationState = "user_speaking"

getState(S) ==
    [status |-> S.status, conversationState |-> S.conversationState,
     error |-> S.error, history |-> S.history,
     isConnected |-> isConnected(S), isAiSpeaking |-> isAiSpeaking(S),
     isUserSpeaking |-> isUserSpeaking(S)]

\* emit(event, ...args) as the lifecycle sees it: the event and its payload are
\* handed to the listeners of `event`; a listener's exception never comes back
\* (the registry itself is modelled below, see busEmit).
emit(S, event, args) ==
    [S EXCEPT !.pub = Append(@, [ev |-> event, args |-> args])]

\* emitStateChange() publishing nothing
emitStateChangeNever(S) == S

emitStateChange(S) == emit(S, "stateChange", <<getState(S)>>)

setConversationState(S, state) ==
    IF S.conversationState # state
    THEN emitStateChange(
            emit([S EXCEPT !.conversationState = state],
                 "conversationStateChange", <<state>>))
    ELSE S

setStatus(S, st) ==
    IF S.status # st
    THEN LET S1 == emitStateChange(
                      emit([S EXCEPT !.status = st], "statusChange", <<st>>))
         IN  IF st \in {"idle", "error"}
             THEN setConversationState(S1, "idle")
             ELSE S1
    ELSE S

\* RealtimeSession.close(): the handle is closed for good
closeSession(S) ==
    [S EXCEPT !.sess[S.session].closed = TRUE]

\* clearInterval(this._autoUpdateTimer) clears the interval the field holds
stopAutoUpdate(S) ==
    IF S.autoUpdateTimer
    THEN [S EXCEPT !.autoUpdateTimer = FALSE, !.intervals = @ - 1]
    ELSE S

\* startAutoUpdate() without `if (this._autoUpdateTimer) return`
startAutoUpdateUnguarded(S) ==
    [S EXCEPT !.autoUpdateTimer = TRUE, !.intervals = @ + 1]

startAutoUpdate(S) ==
    IF S.autoUpdateTimer THEN S
    ELSE [S EXCEPT !.autoUpdateTimer = TRUE, !.intervals = @ + 1]

\* disconnect() without `this._history = []`
disconnectKeepsHistory(S) ==
    LET S1 == IF S.session # NoSession
              THEN [closeSession(S) EXCEPT !.session = NoSession]
              ELSE S
        S3 == setStatus(S1, "idle")
        S4 == setConversationState(S3, "idle")
        S5 == emit(S4, "disconnected", <<>>)
    IN  emit(S5, "historyChange", << <<>> >>)

disconnect(S) ==
    LET S1 == IF S.session # NoSession
              THEN [closeSession(S) EXCEPT !.session = NoSession]
              ELSE S
        S2 == [S1 EXCEPT !.history = <<>>]
        S3 == setStatus(S2, "idle")
        S4 == setConversationState(S3, "idle")
        S5 == emit(S4, "disconnected", <<>>)
    IN  emit(S5, "historyChange", << <<>> >>)

\* --------------------------------------------------- transcript reconciler
\* A RealtimeItem as handleHistoryUpdate reads it: its type, its itemId (0: none),
\* its role, and of its first content entry the type ("none": no entry) and the
\* text or transcript ("": none).
Item(type, itemId, role, ctype, body) ==
    [type |-> type, itemId |-> itemId, role |-> role, ctype |-> ctype, body |-> body]

TextTypes == {"input_text", "output_text"}
AudioTypes == {"input_audio", "output_audio"}

\* the loop body without its two `continue`s
RetainedAnyMessage(item) == item.type = "message"

\* whether the loop body reaches newHistory.push for this item
Retained(item) ==
    /\ item.type = "message"
    /\ item.ctype # "none"
    /\ item.ctype \in TextTypes \cup AudioTypes

messageContent(item) ==
    IF item.ctype \in TextTypes
    THEN [type |-> "text", text |-> item.body]
    ELSE [type |-> "audio", text |-> IF item.body = "" THEN "null" ELSE item.body]

\* item.itemId || `msg_${++this._messageIdCounter}`
messageId(item, counter) ==
    IF item.itemId # 0 THEN <<"item", item.itemId>> ELSE <<"msg", counter + 1>>

counterAfter(item, counter) ==
    IF item.itemId # 0 THEN counter ELSE counter + 1

\* the for loop of handleHistoryUpdate from item i on: [hist, counter]
RECURSIVE rebuild(_, _, _, _, _)
rebuild(raw, i, counter, acc, clock) ==
    IF i > Len(raw) THEN [hist |-> acc, counter |-> counter]
    ELSE IF Retained(raw[i])
         THEN rebuild(raw, i + 1, counterAfter(raw[i], counter),
                      Append(acc, [id |-> messageId(raw[i], counter),
                                   role |-> raw[i].role,
                                   content |-> messageContent(raw[i]),
                                   raw |-> raw[i],
                                   timestamp |-> clock]),
                      clock)
         ELSE rebuild(raw, i + 1, counter, acc, clock)

\* newHistory instead of newHistory.slice(previousLength)
newMessagesUnsliced(newHistory, previousLength) ==
    IF Len(newHistory) > previousLength THEN newHistory ELSE <<>>

\* newHistory.slice(previousLength), guarded by newHistory.length > previousLength
newMessages(newHistory, previousLength) ==
    IF Len(newHistory) > previousLength
    THEN SubSeq(newHistory, previousLength + 1, Len(newHistory))
    ELSE <<>>

RECURSIVE emitMessages(_, _, _)
emitMessages(S, msgs, i) ==
    IF i > Len(msgs) THEN S
    ELSE emitMessages(emit(S, "message", <<msgs[i]>>), msgs, i + 1)

handleHistoryUpdate(S, rawHistory, clock) ==
    LET built == rebuild(rawHistory, 1, S.messageIdCounter, <<>>, clock)
        newHistory == built.hist
        previousLength == Len(S.history)
        S1 == [S EXCEPT !.history = newHistory, !.messageIdCounter = built.counter]
        S2 == emitMessages(S1, newMessages(newHistory, previousLength), 1)
        S3 == emit(S2, "historyChange", <<newHistory>>)
    IN  emitStateChange(S3)

\* ------------------------------------------------------------ connect()
\* What the external session may reject connect() with: an Error with a message,
\* or a value that is not an Error.
RejectReasons ==
    {[thrown |-> TRUE, isError |-> TRUE, message |-> "connect failed"],
     [thrown |-> TRUE, isError |-> FALSE, message |-> ""]}

\* this.session.sendMessage(...) when this.session is null
NullSessionError == [thrown |-> TRUE, isError |-> TRUE, message |-> "session is null"]

\* RealtimeSession.sendMessage on a handle whose transport is not connected
NotConnectedError == [thrown |-> TRUE, isError |-> TRUE, message |-> "not connected"]

\* error instanceof Error ? error.message : "Failed to connect"
connectErrorMessage(e) == IF e.isError THEN e.message ELSE "Failed to connect"

\* The outcomes of this.session.sendMessage(text): a TypeError when the field is
\* null; delivery when the handle's transport is connected and open; delivery or
\* an exception, as the external session decides, on any other handle.
SendOutcomes(S) ==
    IF S.session = NoSession THEN {"null"}
    ELSE IF S.sess[S.session].phase = "open" /\ ~S.sess[S.session].closed
         THEN {"sent"}
         ELSE {"sent", "throws"}

\* a delivered message is recorded with its receiver and with the number of
\* events the running handler had published before the send
sessionSend(S, kind, outcome) ==
    IF outcome = "sent"
    THEN [S EXCEPT !.sent = Append(@, [to |-> S.session, kind |-> kind,
                                       after |-> Len(S.pub)])]
    ELSE [S EXCEPT !.threw = IF outcome = "null" THEN NullSessionError
                             ELSE NotConnectedError]

\* connect() without its guard
alreadyConnectedNever(S) == FALSE

\* connect(), lines 486-489: `if (this.session) { ...; return; }`
alreadyConnected(S) == S.session # NoSession

\* connect(), lines 486-522: up to the await of session.connect()
connectStart(S, sid) ==
    LET S1 == setStatus(S, "connecting")
        S2 == [S1 EXCEPT !.error = NoError]
    IN  [S2 EXCEPT !.session = sid,
                   !.sess[sid] = [phase |-> "pending", closed |-> FALSE]]

\* connect(), lines 524-525: the await returned
connectConnected(S) ==
    emit(setStatus(S, "connected"), "connected", <<>>)

\* connect(), lines 531-558: after `await this.refreshDOM()`, or from line 537 on
\* when UI mode is off
connectGreet(S, outcome) ==
    IF cfg.autoGreet THEN sessionSend(S, "greeting", outcome) ELSE S

\* lines 524-558 with the greeting sent ahead of line 524
connectResumeGreetFirst(S, outcome) ==
    connectConnected(connectGreet(S, outcome))

\* connect(), lines 524-558 when UI mode is off: nothing is awaited in between
connectResume(S, outcome) ==
    connectGreet(connectConnected(S), outcome)

connectAfterDOM(S, outcome) ==
    connectGreet(IF cfg.ui.autoUpdate THEN startAutoUpdate(S) ELSE S, outcome)

\* the catch block without emit("error", errorMessage)
connectCatchNoEvent(S, e) ==
    setStatus([S EXCEPT !.error = connectErrorMessage(e), !.threw = NoThrow],
              "error")

\* connect(), lines 559-567: the catch block (the rethrow is the action's `ret`)
connectCatch(S, e) ==
    LET msg == connectErrorMessage(e)
        S1 == [S EXCEPT !.error = msg, !.threw = NoThrow]
        S2 == setStatus(S1, "error")
    IN  emit(S2, "error", <<msg>>)

\* the try block's exception, if any, handled by the catch block
connectSettle(S) ==
    IF S.threw.thrown THEN connectCatch(S, S.threw) ELSE S

\* ------------------------------------------------------- executeAction()
\* action.outputCode: absent (null or undefined) or a string
NoCode == [present |-> FALSE, text |-> ""]
Code(text) == [present |-> TRUE, text |-> text]
OutputCodes == {NoCode, Code(""), Code("click()")}

\* action.outputCode === null instead of !action.outputCode
FalsyNullOnly(code) == ~code.present

\* !action.outputCode
Falsy(code) == ~code.present \/ code.text = ""

\* What running `new Function(code)()` can do: return a value, or throw an Error
\* or a value that is not an Error.
RunOutcomes ==
    {[threw |-> FALSE, isError |-> FALSE, value |-> "undefined"],
     [threw |-> FALSE, isError |-> FALSE, value |-> "v"],
     [threw |-> TRUE, isError |-> TRUE, value |-> "boom"],
     [threw |-> TRUE, isError |-> FALSE, value |-> "x"]}

\* ------------------------------------------------------ results of a handler
Result(kind, success, result, err, ran) ==
    [kind |-> kind, success |-> success, result |-> result, error |-> err,
     ran |-> ran]

Void == Result("void", TRUE, "", "", FALSE)
Pending == Result("pending", TRUE, "", "", FALSE)
Raised(e) == Result("raise", FALSE, "", e.message, FALSE)

\* executeAction(action) with no try around the run of the instructions
executeActionUncaught(code, outcome) ==
    IF Falsy(code) THEN Result("value", TRUE, "null", "", FALSE)
    ELSE IF ~outcome.threw
         THEN Result("value", TRUE, outcome.value, "", TRUE)
         ELSE Result("raise", FALSE, "", outcome.value, TRUE)

\* executeAction(action): `ran` tells whether the instructions were run
executeAction(code, outcome) ==
    IF Falsy(code) THEN Result("value", TRUE, "null", "", FALSE)
    ELSE IF ~outcome.threw
         THEN Result("value", TRUE, outcome.value, "", TRUE)
         ELSE Result("value", FALSE, "",
                     IF outcome.isError THEN outcome.value ELSE "Unknown error",
                     TRUE)

Op(name, sid, code) == [op |-> name, sid |-> sid, code |-> code]

\* the fields of S written back, with the handler's name and result
\* The events `pub` from position i on, read after a history in which `flag`
\* tells whether a connected event is the last of the connected and
\* disconnected events: the flag after them, and whether a connected event
\* followed a connected event with no disconnected event between.
RECURSIVE connectedRun(_, _, _)
connectedRun(pub, i, flag) ==
    IF i > Len(pub) THEN [flag |-> flag, twice |-> FALSE]
    ELSE IF pub[i].ev = "connected"
         THEN [flag |-> connectedRun(pub, i + 1, TRUE).flag,
               twice |-> flag \/ connectedRun(pub, i + 1, TRUE).twice]
         ELSE IF pub[i].ev = "disconnected"
              THEN connectedRun(pub, i + 1, FALSE)
              ELSE connectedRun(pub, i + 1, flag)

Commit(S, op, r) ==
    /\ connectedSince' = connectedRun(S.pub, 1, connectedSince).flag
    /\ status' = S.status
    /\ conversationState' = S.conversationState
    /\ error' = S.error
    /\ history' = S.history
    /\ session' = S.session
    /\ autoUpdateTimer' = S.autoUpdateTimer
    /\ intervals' = S.intervals
    /\ sess' = S.sess
    /\ messageIdCounter' = S.messageIdCounter
    /\ published' = S.pub
    /\ sentNow' = S.sent
    /\ lastOp' = op
    /\ ret' = r
    /\ cfg' = cfg
    /\ UNCHANGED confVars

\* a handler of the lifecycle: the transcript bookkeeping is not touched
Handler(S, op, r) == Commit(S, op, r) /\ UNCHANGED <<recVars, busVars, domVars>>

\* ------------------------------------------------- the listener registry
\* this.listeners is a Map from event name to a Set of callbacks.  A Set is
\* modelled as the sequence of its entries in insertion order, which is the
\* order Set.prototype.forEach visits them in; forEach also visits entries
\* added while it runs and skips entries deleted before it reaches them.

\* the once() registrations one instance makes
MaxOnce == 2
\* the subscriptions (Set.add that inserts) one instance makes
MaxSubs == 3

Events == {"disconnected"}

\* What the host's callbacks do when invoked: return, throw, unsubscribe
\* and resubscribe themselves, call removeAllListeners(), subscribe another
\* callback.
Callbacks == {"plain", "thrower", "resub", "clearer", "adder"}

\* What a callback given to once() does: return, or call an operation that
\* publishes the same event again (disconnect() in a "disconnected" listener).
Inners == {"plain", "publisher"}

Wrappers == 1..MaxOnce

Listener(fn, w) == [fn |-> fn, w |-> w]

Entry(cb, stamp) == [cb |-> cb, stamp |-> stamp]

NoOnce == [ev |-> "none", inner |-> "none"]

NoEmit == [ev |-> "none", invoked |-> <<>>, entries |-> <<>>]

Bus ==
    [listeners |-> listeners, stack |-> stack, onceOf |-> onceOf,
     onceCalls |-> onceCalls, cancelled |-> cancelled, subCount |-> subCount,
     propagated |-> propagated, done |-> done]

IndexOf(set, cb) ==
    IF \E i \in 1..Len(set) : set[i].cb = cb
    THEN CHOOSE i \in 1..Len(set) : set[i].cb = cb
    ELSE 0

Remove(set, i) ==
    [j \in 1..(Len(set) - 1) |-> IF j < i THEN set[j] ELSE set[j + 1]]

\* on(event, callback): Set.add appends unless the callback is an entry
on(B, ev, cb) ==
    IF IndexOf(B.listeners[ev], cb) # 0 THEN B
    ELSE [B EXCEPT !.listeners[ev] = Append(@, Entry(cb, B.subCount + 1)),
                   !.subCount = @ + 1]

\* off(event, callback): Set.delete on the Set the Map holds now; a forEach
\* in progress on that Set that is past the entry stays where it is
off(B, ev, cb) ==
    LET i == IndexOf(B.listeners[ev], cb)
        moved(f) == IF ~f.orphan /\ f.ev = ev /\ f.cursor >= i
                    THEN [f EXCEPT !.cursor = @ - 1] ELSE f
    IN  IF i = 0 THEN B
        ELSE [B EXCEPT !.listeners[ev] = Remove(@, i),
                       !.stack = [k \in DOMAIN B.stack |-> moved(B.stack[k])]]

\* removeAllListeners(): Map.clear drops the Sets from the Map and leaves
\* the Set objects as they are, so a forEach in progress goes on over the
\* Set it started on
removeAllListeners(B) ==
    LET dropped(f) == IF f.orphan THEN f
                      ELSE [f EXCEPT !.orphan = TRUE, !.snap = B.listeners[f.ev]]
        wrapped == {w \in Wrappers : \E ev \in Events :
                        IndexOf(B.listeners[ev], Listener("wrapped", w)) # 0}
    IN  [B EXCEPT !.listeners = [ev \in Events |-> <<>>],
                  !.stack = [k \in DOMAIN B.stack |-> dropped(B.stack[k])],
                  !.cancelled = @ \cup wrapped]

\* once(event, callback): subscribes the wrapper `w`
once(B, ev, inner, w) ==
    on([B EXCEPT !.onceOf[w] = [ev |-> ev, inner |-> inner]], ev,
       Listener("wrapped", w))

Frame(ev) ==
    [ev |-> ev, orphan |-> FALSE, snap |-> <<>>, cursor |-> 0, invoked |-> <<>>]

\* the Set a forEach in progress iterates
frameSet(B, f) == IF f.orphan THEN f.snap ELSE B.listeners[f.ev]

\* emit(event, ...args) up to the first callback: listeners.get and forEach
emitBegin(B, ev) == [B EXCEPT !.stack = Append(@, Frame(ev))]

\* a callback threw, and emit() had no try around the call
listenerThrowsUncaught(B) ==
    LET f == B.stack[Len(B.stack)]
    IN  [B EXCEPT !.stack = <<>>, !.propagated = TRUE,
                  !.done = [ev |-> f.ev, invoked |-> f.invoked,
                            entries |-> frameSet(B, f)]]

\* a callback threw: the catch in emit() logs it and forEach goes on
listenerThrows(B) == B

\* the wrapper once() subscribes: off(event, wrapped), then the callback
wrapped(B, ev, w) ==
    LET B1 == off(B, B.onceOf[w].ev, Listener("wrapped", w))
        B2 == [B1 EXCEPT !.onceCalls[w] = @ + 1]
    IN  IF B.onceOf[w].inner = "publisher" THEN emitBegin(B2, ev) ELSE B2

\* (callback as Function)(...args) inside the try of emit()
call(B, ev, cb) ==
    CASE cb.fn = "plain"   -> B
      [] cb.fn = "thrower" -> listenerThrows(B)
      [] cb.fn = "resub"   -> on(off(B, ev, cb), ev, cb)
      [] cb.fn = "clearer" -> removeAllListeners(B)
      [] cb.fn = "adder"   -> on(B, ev, Listener("plain", 0))
      [] cb.fn = "wrapped" -> wrapped(B, ev, cb.w)

\* one step of the innermost forEach: the next entry's callback, or the
\* return of emit() when no entry is left
forEach(B) ==
    LET n == Len(B.stack)
        f == B.stack[n]
        set == frameSet(B, f)
    IN  IF f.cursor < Len(set)
        THEN LET e == set[f.cursor + 1]
                 B1 == [B EXCEPT !.stack[n] = [f EXCEPT !.cursor = @ + 1,
                                                        !.invoked = Append(@, e)]]
             IN  call(B1, f.ev, e.cb)
        ELSE [B EXCEPT !.stack = SubSeq(@, 1, n - 1),
                       !.done = [ev |-> f.ev, invoked |-> f.invoked,
                                 entries |-> set]]

BusCommit(B) ==
    /\ listeners' = B.listeners
    /\ stack' = B.stack
    /\ onceOf' = B.onceOf
    /\ onceCalls' = B.onceCalls
    /\ cancelled' = B.cancelled
    /\ subCount' = B.subCount
    /\ propagated' = B.propagated
    /\ done' = B.done

BusInit ==
    /\ listeners = [ev \in Events |-> <<>>]
    /\ stack = <<>>
    /\ onceOf = [w \in Wrappers |-> NoOnce]
    /\ onceCalls = [w \in Wrappers |-> 0]
    /\ cancelled = {}
    /\ subCount = 0
    /\ propagated = FALSE
    /\ done = NoEmit

\* ------------------------------------------------------- the UI tools
\* The two classes of the file differ in the tools they give to the agent
\* and in what execute_ui_action does around executeAction.
Profiles == {"Aven", "Atticus"}

\* the execute_ui_action calls of one instance
MaxCalls == 2

\* A captured text is "fresh" when its capture started after the last run
\* of instructions by execute_ui_action, "stale" when it started before.
NoDOM == "null"

\* the callers of captureDOM: execute_ui_action before and after the
\* action, the auto-update timer, a host call of updateDOM(element)
Owners == {"pre", "post", "timer", "manual"}

Dom ==
    [actionIdCounter |-> actionIdCounter, currentDOM |-> currentDOM,
     captures |-> captures, tool |-> tool]

\* `ranAt` holds, when the call ran its instructions, the number of events the
\* call had published by then
IdleTool == [pc |-> "idle", code |-> NoCode, dom |-> "none", ranAt |-> <<>>]

\* the constructor with `tools` always holding the action tool
toolsAlways(p, c) ==
    IF p = "Atticus" THEN {"get_ui_state", "execute_ui_action"}
    ELSE {"execute_ui_action"}

\* the constructor: const tools = this.config.ui.enabled ? [...] : []
toolsOf(p, c) ==
    IF c.ui.enabled
    THEN IF p = "Atticus" THEN {"get_ui_state", "execute_ui_action"}
         ELSE {"execute_ui_action"}
    ELSE {}

\* captureDOM(element) is called: adaptiveD2Snap reads the page as it is now
captureDOM(U, o) == [U EXCEPT !.captures[o] = "fresh"]

\* updateDOM resumes after `await this.captureDOM(dom)`
updateDOM(U, o) ==
    [U EXCEPT !.currentDOM = U.captures[o], !.captures[o] = "none"]

\* sendDOMContext() sending the stored text to the session as a message
sendDOMContextPushes(S, U) ==
    IF S.session = NoSession \/ U.currentDOM = NoDOM THEN S
    ELSE sessionSend(S, "dom", "sent")

\* sendDOMContext(): returns when there is no session or no text, and
\* otherwise only logs
sendDOMContext(S, U) ==
    IF S.session = NoSession \/ U.currentDOM = NoDOM THEN S
    ELSE S

\* updateDOM after the assignment of this._currentDOM, lines 647-651
updateDOMDone(S, U) ==
    IF S.session # NoSession /\ U.currentDOM # NoDOM
    THEN sendDOMContext(S, U)
    ELSE S

\* the instructions of an action ran: what was captured before shows the
\* page as it was
pageChanged(U) ==
    LET old(d) == IF d = "fresh" THEN "stale" ELSE d
    IN  [U EXCEPT !.currentDOM = old(@),
                  !.captures = [o \in Owners |-> old(U.captures[o])]]

\* auto-execution whatever doNotExecuteActions says
autoExecuteAlways(code) == ~Falsy(code)

\* !this.config.doNotExecuteActions && action.outputCode
autoExecute(code) == ~doNotExecuteActions /\ ~Falsy(code)

ToolCommit(U) ==
    /\ actionIdCounter' = U.actionIdCounter
    /\ currentDOM' = U.currentDOM
    /\ captures' = U.captures
    /\ tool' = U.tool

\* the object passed to `new`, as far as the presence of its two required
\* fields goes
Givens == [clientSecret : BOOLEAN, agent : BOOLEAN]

AllGiven == [clientSecret |-> TRUE, agent |-> TRUE]

\* this.config.agent.instructions when this.config.agent is undefined
NoAgentError == [thrown |-> TRUE, isError |-> TRUE, message |-> "agent is undefined"]

\* the constructor: config.clientSecret and config.agent are copied as they
\* are; buildInstructions() reads this.config.agent.instructions, a TypeError
\* when agent is absent; then the tools and the RealtimeAgent are made
constructor(g, p, c) ==
    IF g.agent
    THEN [made |-> "yes", tools |-> toolsOf(p, c), threw |-> NoThrow]
    ELSE [made |-> "threw", tools |-> {}, threw |-> NoAgentError]

ToolInit ==
    /\ profile = "Aven"
    /\ doNotExecuteActions = FALSE
    /\ tools = toolsOf(profile, cfg)
    /\ given = AllGiven
    /\ made = "yes"
    /\ actionIdCounter = 0
    /\ currentDOM = NoDOM
    /\ captures = [o \in Owners |-> "none"]
    /\ tool = IdleTool

\* ---------------------------------------------------------------- actions
\* The effective configurations: ui.autoUpdate is read only when ui.enabled.
Configs ==
    {c \in [autoGreet : BOOLEAN, ui : [enabled : BOOLEAN, autoUpdate : BOOLEAN]] :
        c.ui.autoUpdate => c.ui.enabled}

FreshIds == {s \in SessionIds : sess[s].phase = "unused"}

Smallest(ids) == CHOOSE s \in ids : \A t \in ids : s <= t

Init ==
    /\ cfg \in Configs
    /\ status = "idle"
    /\ conversationState = "idle"
    /\ error = NoError
    /\ history = <<>>
    /\ session = NoSession
    /\ autoUpdateTimer = FALSE
    /\ intervals = 0
    /\ connectedSince = FALSE
    /\ sess = [s \in SessionIds |-> [phase |-> "unused", closed |-> FALSE]]
    /\ pc = [s \in SessionIds |-> "none"]
    /\ messageIdCounter = 0
    /\ now = 0
    /\ published = <<>>
    /\ sentNow = <<>>
    /\ lastOp = Op("new", NoSession, NoCode)
    /\ ret = Void
    /\ rawPrev = <<>>
    /\ appendOnly = TRUE
    /\ BusInit
    /\ ToolInit

\* connect() up to its first await; `name` is the public operation that ran it
doConnect(name) ==
    IF alreadyConnected(Cur)
    THEN Handler(Cur, Op(name, NoSession, NoCode), Void) /\ UNCHANGED <<pc, now>>
    ELSE /\ FreshIds # {}
         /\ Handler(connectStart(Cur, Smallest(FreshIds)),
                   Op(name, Smallest(FreshIds), NoCode), Pending)
         /\ pc' = [pc EXCEPT ![Smallest(FreshIds)] = "awaitConnect"]
         /\ UNCHANGED now

Connect == doConnect("connect")

\* the tail of connect() from the greeting on, and the promise's outcome
finishConnect(S, s) ==
    /\ Commit(connectSettle(S), Op("connect.done", s, NoCode),
              IF S.threw.thrown THEN Raised(S.threw) ELSE Void)
    /\ pc' = [pc EXCEPT ![s] = "done"]
    /\ UNCHANGED <<now, recVars, busVars, actionIdCounter, captures, tool>>

\* session.connect() of session s resolves and connect() resumes at line 524
ConnectResolves ==
    \E s \in SessionIds :
        /\ pc[s] = "awaitConnect"
        /\ LET S0 == [Cur EXCEPT !.sess[s].phase = "open"]
           IN  IF cfg.ui.enabled
               THEN /\ Handler(connectConnected(S0),
                               Op("connect.connected", s, NoCode), Pending)
                    /\ pc' = [pc EXCEPT ![s] = "awaitDOM"]
                    /\ UNCHANGED now
               ELSE \E outcome \in SendOutcomes(S0) :
                        /\ finishConnect(connectResume(S0, outcome), s)
                        /\ UNCHANGED currentDOM

\* session.connect() of session s rejects and connect() resumes in its catch
ConnectRejects ==
    \E s \in SessionIds, e \in RejectReasons :
        /\ pc[s] = "awaitConnect"
        /\ finishConnect([Cur EXCEPT !.sess[s].phase = "failed", !.threw = e], s)
        /\ UNCHANGED currentDOM

\* `await this.refreshDOM()` returns and connect() resumes at line 531
DOMCaptured ==
    \E s \in SessionIds :
        /\ pc[s] = "awaitDOM"
        /\ currentDOM' = "fresh"
        /\ \E outcome \in SendOutcomes(Cur) :
               finishConnect(
                   connectAfterDOM(
                       updateDOMDone(Cur, [Dom EXCEPT !.currentDOM = "fresh"]),
                       outcome), s)

Disconnect ==
    /\ Handler(disconnect(Cur), Op("disconnect", NoSession, NoCode), Void)
    /\ UNCHANGED <<pc, now>>

Toggle ==
    IF isConnected(Cur)
    THEN /\ Handler(disconnect(Cur), Op("toggle", NoSession, NoCode), Void)
         /\ UNCHANGED <<pc, now>>
    ELSE IF status \in {"idle", "error"}
         THEN doConnect("toggle")
         ELSE /\ Handler(Cur, Op("toggle", NoSession, NoCode), Void)
              /\ UNCHANGED <<pc, now>>

Destroy ==
    /\ Commit(disconnect(stopAutoUpdate(Cur)), Op("destroy", NoSession, NoCode), Void)
    /\ BusCommit(removeAllListeners(Bus))
    /\ UNCHANGED <<pc, now, recVars, domVars>>

StartAutoUpdate ==
    /\ Handler(startAutoUpdate(Cur), Op("startAutoUpdate", NoSession, NoCode), Void)
    /\ UNCHANGED <<pc, now>>

StopAutoUpdate ==
    /\ Handler(stopAutoUpdate(Cur), Op("stopAutoUpdate", NoSession, NoCode), Void)
    /\ UNCHANGED <<pc, now>>

SendMessage ==
    /\ IF session # NoSession
       THEN \E outcome \in SendOutcomes(Cur) :
                LET S1 == sessionSend(Cur, "text", outcome)
                IN  Handler([S1 EXCEPT !.threw = NoThrow],
                           Op("sendMessage", NoSession, NoCode),
                           IF S1.threw.thrown THEN Raised(S1.threw) ELSE Void)
       ELSE Handler(Cur, Op("sendMessage", NoSession, NoCode), Void)
    /\ UNCHANGED <<pc, now>>

ExecuteAction ==
    \E code \in OutputCodes, outcome \in RunOutcomes :
        /\ Handler(Cur, Op("executeAction", NoSession, code),
                  executeAction(code, outcome))
        /\ UNCHANGED <<pc, now>>

\* ------------------------------------------- the external session's events
\* Session s can deliver turn signals and transcripts once its transport has
\* connected; its listeners stay registered after close(), so an event of a
\* closed session that was already on its way is still delivered.
CanSignal(s) == sess[s].phase = "open"

\* An error event can come from any session that was created.
CanFail(s) == sess[s].phase # "unused"

AgentStart ==
    \E s \in SessionIds :
        /\ CanSignal(s)
        /\ Handler(emit(setConversationState(Cur, "ai_speaking"), "agentStart", <<>>),
                  Op("agent_start", s, NoCode), Void)
        /\ UNCHANGED <<pc, now>>

AgentEnd ==
    \E s \in SessionIds :
        /\ CanSignal(s)
        /\ Handler(emit(setConversationState(Cur, "user_turn"), "agentEnd", <<>>),
                  Op("agent_end", s, NoCode), Void)
        /\ UNCHANGED <<pc, now>>

Audio ==
    \E s \in SessionIds :
        /\ CanSignal(s)
        /\ Handler(emit(setConversationState(Cur, "user_speaking"), "userAudio", <<>>),
                  Op("audio", s, NoCode), Void)
        /\ UNCHANGED <<pc, now>>

\* the values a session's error event carries here: an Error, and a primitive
\* whose String() is empty
SessionErrors ==
    {[kind |-> "Error", text |-> "session failed"],
     [kind |-> "primitive", text |-> ""]}

\* the error listener's normalisation to text, lines 723-730
sessionErrorMessage(e) ==
    IF e.kind = "Error" THEN e.text
    ELSE IF e.kind = "object" THEN e.text
         ELSE IF e.text # "" THEN e.text ELSE "An error occurred"

\* an error listener that also moved the instance to status error
sessionErrorForcesStatus(S, e) ==
    emit(setStatus([S EXCEPT !.error = sessionErrorMessage(e)], "error"),
         "error", <<sessionErrorMessage(e)>>)

sessionError(S, e) ==
    emit([S EXCEPT !.error = sessionErrorMessage(e)], "error",
         <<sessionErrorMessage(e)>>)

SessionError ==
    \E s \in SessionIds, e \in SessionErrors :
        /\ CanFail(s)
        /\ Handler(sessionError(Cur, e), Op("error", s, NoCode), Void)
        /\ UNCHANGED <<pc, now>>

\* the transcripts a session delivers in the lifecycle specification
LifeItem(k) == Item("message", k, "user", "input_text", "hi")
LifeRaws == {<<LifeItem(1)>>}

HistoryUpdated ==
    \E s \in SessionIds, raw \in LifeRaws :
        /\ CanSignal(s)
        /\ Handler(handleHistoryUpdate(Cur, raw, now),
                  Op("history_updated", s, NoCode), Void)
        /\ UNCHANGED <<pc, now>>

\* The connection lifecycle: the host's operations and the session's callbacks,
\* in every order.
Next ==
    \/ Connect
    \/ ConnectResolves
    \/ ConnectRejects
    \/ DOMCaptured
    \/ Disconnect
    \/ Toggle
    \/ Destroy
    \/ SendMessage
    \/ AgentStart
    \/ AgentEnd
    \/ Audio
    \/ SessionError
    \/ HistoryUpdated

Spec == Init /\ [][Next]_vars

\* The UI side: executeAction and the auto-update timer over a connection whose
\* session stays silent.
NextAct ==
    \/ Connect
    \/ ConnectResolves
    \/ DOMCaptured
    \/ Disconnect
    \/ Destroy
    \/ StartAutoUpdate
    \/ StopAutoUpdate
    \/ ExecuteAction

SpecAct == Init /\ [][NextAct]_vars

\* ------------------------------------------------ the listener registry
\* The host subscribes, unsubscribes and publishes between deliveries; while
\* an emit() is in progress only its callbacks run.
BusOn ==
    /\ stack = <<>>
    /\ subCount < MaxSubs
    /\ \E ev \in Events, fn \in Callbacks :
        BusCommit(on(Bus, ev, Listener(fn, 0)))
    /\ UNCHANGED <<lifeVars, recVars, confVars, domVars>>

BusOnce ==
    /\ stack = <<>>
    /\ subCount < MaxSubs
    /\ \E w \in Wrappers :
        /\ onceOf[w] = NoOnce
        /\ \A v \in Wrappers : v < w => onceOf[v] # NoOnce
        /\ \E ev \in Events, inner \in Inners :
            BusCommit(once(Bus, ev, inner, w))
    /\ UNCHANGED <<lifeVars, recVars, confVars, domVars>>

\* the function on() and once() return: off(event, callback)
BusOff ==
    /\ stack = <<>>
    /\ \E ev \in Events :
        \E i \in 1..Len(listeners[ev]) :
            LET cb == listeners[ev][i].cb
                B == off(Bus, ev, cb)
            IN  BusCommit([B EXCEPT !.cancelled =
                             IF cb.fn = "wrapped" THEN @ \cup {cb.w} ELSE @])
    /\ UNCHANGED <<lifeVars, recVars, confVars, domVars>>

BusRemoveAllListeners ==
    /\ stack = <<>>
    /\ BusCommit(removeAllListeners(Bus))
    /\ UNCHANGED <<lifeVars, recVars, confVars, domVars>>

\* a handler publishes an event: emit() starts
BusEmit ==
    /\ stack = <<>>
    /\ \E ev \in Events : BusCommit(emitBegin(Bus, ev))
    /\ UNCHANGED <<lifeVars, recVars, confVars, domVars>>

\* the innermost emit() in progress takes its next step
BusDeliver ==
    /\ stack # <<>>
    /\ LET B == forEach(Bus)
       IN  /\ B.subCount <= MaxSubs
           /\ BusCommit(B)
    /\ UNCHANGED <<lifeVars, recVars, confVars, domVars>>

InitBus ==
    /\ Init
    /\ cfg = [autoGreet |-> FALSE, ui |-> [enabled |-> FALSE, autoUpdate |-> FALSE]]

NextBus ==
    \/ BusOn
    \/ BusOnce
    \/ BusOff
    \/ BusRemoveAllListeners
    \/ BusEmit
    \/ BusDeliver

SpecBus == InitBus /\ [][NextBus]_vars

\* ------------------------------------------- the registry, what it retains
\* What the registry's code reads of a Set is its entries in order, and of a
\* forEach in progress its position: the records of what was subscribed when
\* and of what was invoked so far are dropped here, so that a delivery that
\* comes back to where it was is seen to come back. Of the count of
\* subscriptions the parity stays, which tells a step that subscribed from no
\* step at all.
unstamped(set) == [i \in DOMAIN set |-> Entry(set[i].cb, i)]

forget(B) ==
    [B EXCEPT !.listeners = [ev \in Events |-> unstamped(B.listeners[ev])],
              !.stack = [k \in DOMAIN B.stack |->
                            [B.stack[k] EXCEPT !.snap = unstamped(@),
                                               !.invoked = <<>>]],
              !.subCount = B.subCount % 2,
              !.done = NoEmit]

LiveOn ==
    /\ stack = <<>>
    /\ \E ev \in Events, fn \in Callbacks :
        /\ Len(listeners[ev]) < MaxSubs
        /\ IndexOf(listeners[ev], Listener(fn, 0)) = 0
        /\ BusCommit(forget(on(Bus, ev, Listener(fn, 0))))
    /\ UNCHANGED <<lifeVars, recVars, confVars, domVars>>

LiveOff ==
    /\ stack = <<>>
    /\ \E ev \in Events :
        \E i \in 1..Len(listeners[ev]) :
            BusCommit(forget(off(Bus, ev, listeners[ev][i].cb)))
    /\ UNCHANGED <<lifeVars, recVars, confVars, domVars>>

LiveEmit ==
    /\ stack = <<>>
    /\ \E ev \in Events : BusCommit(forget(emitBegin(Bus, ev)))
    /\ UNCHANGED <<lifeVars, recVars, confVars, domVars>>

\* the forEach of the innermost emit() takes its next step
LiveDeliver ==
    /\ stack # <<>>
    /\ BusCommit(forget(forEach(Bus)))
    /\ UNCHANGED <<lifeVars, recVars, confVars, domVars>>

NextLive ==
    \/ LiveOn
    \/ LiveOff
    \/ LiveEmit
    \/ LiveDeliver

\* emit() is synchronous: once started, its forEach goes on step after step
SpecLive == InitBus /\ [][NextLive]_vars /\ WF_vars(LiveDeliver)

\* ------------------------------------------------------- the UI tools
\* While execute_ui_action is between the assignment of its own capture and
\* its return, only promise reactions run: no timer, host call or agent call.
Quiet == tool.pc # "read"

ToolOp(name, code) == Op(name, NoSession, code)

\* execute_ui_action without this.emit("action", action)
emitActionNever(S, id, code) == S

\* this.emit("action", action), the action carrying its id and instructions
emitAction(S, id, code) ==
    emit(S, "action", <<[id |-> id, code |-> code]>>)

\* execute_ui_action from `const action` on: the action event, then
\* executeAction unless auto-execution is off or there is nothing to run
toolRun(S0, U0, code, outcome) ==
    LET U1 == [U0 EXCEPT !.actionIdCounter = @ + 1]
        S1 == emitAction(S0, U1.actionIdCounter, code)
        r == executeAction(code, outcome)
        U2 == IF r.ran THEN pageChanged(U1) ELSE U1
        at == IF r.ran THEN <<Len(S1.pub)>> ELSE <<>>
        op == ToolOp("tool.run", code)
    IN  IF ~autoExecute(code)
        THEN /\ Commit(S1, op, Result("text", TRUE, "outputText", "", FALSE))
             /\ ToolCommit([U1 EXCEPT !.tool = IdleTool])
        ELSE IF profile = "Aven"
        THEN /\ Commit(S1, op, Result("text", r.success, "outputText", "", r.ran))
             /\ ToolCommit([U2 EXCEPT !.tool = [IdleTool EXCEPT !.ranAt = at]])
        ELSE IF r.success
        THEN /\ Commit(S1, op, Result("pending", TRUE, "", "", r.ran))
             /\ ToolCommit([captureDOM(U2, "post") EXCEPT
                              !.tool = [pc |-> "post", code |-> code,
                                        dom |-> "none", ranAt |-> at]])
        ELSE /\ Commit(S1, op, Result("text", FALSE, "outputText+failed",
                                      r.error, r.ran))
             /\ ToolCommit([U2 EXCEPT !.tool = [IdleTool EXCEPT !.ranAt = at]])

\* the agent calls execute_ui_action; Atticus captures the page first
ToolInvoke ==
    /\ Quiet
    /\ tool.pc = "idle"
    /\ "execute_ui_action" \in tools
    /\ actionIdCounter < MaxCalls
    /\ \E code \in OutputCodes :
        IF profile = "Atticus"
        THEN /\ Commit(Cur, ToolOp("tool.invoke", code), Pending)
             /\ ToolCommit([captureDOM(Dom, "pre") EXCEPT
                              !.tool = [pc |-> "pre", code |-> code,
                                        dom |-> "none", ranAt |-> <<>>]])
        ELSE \E outcome \in RunOutcomes : toolRun(Cur, Dom, code, outcome)
    /\ UNCHANGED <<pc, now, recVars, busVars>>

\* Atticus: the capture before the action returns and the tool goes on
ToolPreCaptured ==
    /\ tool.pc = "pre"
    /\ \E outcome \in RunOutcomes :
        toolRun(updateDOMDone(Cur, updateDOM(Dom, "pre")),
                updateDOM(Dom, "pre"), tool.code, outcome)
    /\ UNCHANGED <<pc, now, recVars, busVars>>

\* Atticus: the capture after the action returns; updateDOM stores it
ToolPostCaptured ==
    /\ tool.pc = "post"
    /\ Commit(updateDOMDone(Cur, updateDOM(Dom, "post")),
              ToolOp("tool.captured", tool.code), Pending)
    /\ ToolCommit([updateDOM(Dom, "post") EXCEPT !.tool.pc = "read"])
    /\ UNCHANGED <<pc, now, recVars, busVars>>

\* Atticus: the tool resumes after `await self.refreshDOM()` and returns the
\* text with this._currentDOM as it is now
ToolReturns ==
    /\ tool.pc = "read"
    /\ Commit(Cur, ToolOp("tool.return", tool.code),
              Result("text", TRUE, "outputText+ui", "", FALSE))
    /\ ToolCommit([Dom EXCEPT !.tool = [pc |-> "idle", code |-> tool.code,
                                         dom |-> currentDOM,
                                         ranAt |-> tool.ranAt]])
    /\ UNCHANGED <<pc, now, recVars, busVars>>

\* the setInterval callback of startAutoUpdate: this.refreshDOM()
TimerFires ==
    /\ Quiet
    /\ intervals > 0
    /\ cfg.ui.enabled
    /\ captures["timer"] = "none"
    /\ Commit(Cur, ToolOp("timer", NoCode), Void)
    /\ ToolCommit(captureDOM(Dom, "timer"))
    /\ UNCHANGED <<pc, now, recVars, busVars>>

\* the host calls updateDOM(element)
UpdateDOM ==
    /\ Quiet
    /\ captures["manual"] = "none"
    /\ Commit(Cur, ToolOp("updateDOM", NoCode), Pending)
    /\ ToolCommit(captureDOM(Dom, "manual"))
    /\ UNCHANGED <<pc, now, recVars, busVars>>

\* the host calls updateDOM(html) with a text of its own
UpdateDOMString ==
    /\ Quiet
    /\ \E text \in {"fresh", "stale"} :
        /\ Commit(updateDOMDone(Cur, [Dom EXCEPT !.currentDOM = text]),
                  ToolOp("updateDOM.string", NoCode), Void)
        /\ ToolCommit([Dom EXCEPT !.currentDOM = text])
    /\ UNCHANGED <<pc, now, recVars, busVars>>

\* a capture of the timer or of the host returns; updateDOM stores it
CaptureReturns ==
    /\ \E o \in {"timer", "manual"} :
        /\ captures[o] # "none"
        /\ Commit(updateDOMDone(Cur, updateDOM(Dom, o)),
                  ToolOp("captured", NoCode), Void)
        /\ ToolCommit(updateDOM(Dom, o))
    /\ UNCHANGED <<pc, now, recVars, busVars>>

\* a connected instance of either class, after connect() has returned
InitTool ==
    /\ cfg \in Configs
    /\ status = "connected"
    /\ conversationState = "idle"
    /\ error = NoError
    /\ history = <<>>
    /\ session = 1
    /\ autoUpdateTimer = cfg.ui.autoUpdate
    /\ intervals = IF cfg.ui.autoUpdate THEN 1 ELSE 0
    /\ connectedSince = TRUE
    /\ sess = [s \in SessionIds |->
                 IF s = 1 THEN [phase |-> "open", closed |-> FALSE]
                 ELSE [phase |-> "unused", closed |-> FALSE]]
    /\ pc = [s \in SessionIds |-> IF s = 1 THEN "done" ELSE "none"]
    /\ messageIdCounter = 0
    /\ now = 0
    /\ published = <<>>
    /\ sentNow = <<>>
    /\ lastOp = Op("connect.done", 1, NoCode)
    /\ ret = Void
    /\ rawPrev = <<>>
    /\ appendOnly = TRUE
    /\ BusInit
    /\ profile \in Profiles
    /\ doNotExecuteActions \in BOOLEAN
    /\ tools = toolsOf(profile, cfg)
    /\ given = AllGiven
    /\ made = "yes"
    /\ actionIdCounter = 0
    /\ currentDOM = IF cfg.ui.enabled THEN "fresh" ELSE NoDOM
    /\ captures = [o \in Owners |-> "none"]
    /\ tool = IdleTool

NextTool ==
    \/ Quiet /\ SendMessage
    \/ ToolInvoke
    \/ ToolPreCaptured
    \/ ToolPostCaptured
    \/ ToolReturns
    \/ TimerFires
    \/ UpdateDOM
    \/ UpdateDOMString
    \/ CaptureReturns
    \/ Quiet /\ ExecuteAction
    \/ Quiet /\ StartAutoUpdate
    \/ Quiet /\ StopAutoUpdate

SpecTool == InitTool /\ [][NextTool]_vars

\* -------------------------------------------------------- construction
\* `new Aven(config)` and `new Atticus(config)`: before the call the fields
\* hold what their initialisers give them and no agent has been made
InitNew ==
    /\ cfg \in Configs
    /\ status = "idle"
    /\ conversationState = "idle"
    /\ error = NoError
    /\ history = <<>>
    /\ session = NoSession
    /\ autoUpdateTimer = FALSE
    /\ intervals = 0
    /\ connectedSince = FALSE
    /\ sess = [s \in SessionIds |-> [phase |-> "unused", closed |-> FALSE]]
    /\ pc = [s \in SessionIds |-> "none"]
    /\ messageIdCounter = 0
    /\ now = 0
    /\ published = <<>>
    /\ sentNow = <<>>
    /\ lastOp = Op("none", NoSession, NoCode)
    /\ ret = Void
    /\ rawPrev = <<>>
    /\ appendOnly = TRUE
    /\ BusInit
    /\ profile \in Profiles
    /\ doNotExecuteActions \in BOOLEAN
    /\ tools = {}
    /\ given \in Givens
    /\ made = "no"
    /\ actionIdCounter = 0
    /\ currentDOM = NoDOM
    /\ captures = [o \in Owners |-> "none"]
    /\ tool = IdleTool

\* the constructor runs
New ==
    /\ made = "no"
    /\ LET r == constructor(given, profile, cfg)
       IN  /\ made' = r.made
           /\ tools' = r.tools
           /\ ret' = IF r.threw.thrown THEN Raised(r.threw) ELSE Void
    /\ lastOp' = Op("new", NoSession, NoCode)
    /\ UNCHANGED <<cfg, status, conversationState, error, history, session,
                   autoUpdateTimer, intervals, connectedSince, sess, pc,
                   messageIdCounter, now, published,
                   sentNow, profile, doNotExecuteActions, given,
                   recVars, busVars, domVars>>

\* the host reads the state of the instance it was given
GetState ==
    /\ made = "yes"
    /\ lastOp.op = "new"
    /\ lastOp' = Op("getState", NoSession, NoCode)
    /\ ret' = Result("value", TRUE, getState(Cur).status, "", FALSE)
    /\ UNCHANGED <<cfg, status, conversationState, error, history, session,
                   autoUpdateTimer, intervals, connectedSince, sess, pc,
                   messageIdCounter, now, published,
                   sentNow, recVars, busVars, confVars, domVars>>

NextNew ==
    \/ New
    \/ GetState

SpecNew == InitNew /\ [][NextNew]_vars

\* ------------------------------------------- the transcript reconciler alone
\* The items a snapshot is made of: a text message and an audio message with
\* backend ids, a message without a backend id, a message with no content entry,
\* a message whose first content entry is of no recognised kind, and an item
\* that is no message.
RecItems ==
    {Item("message", 1, "user", "input_text", "hi"),
     Item("message", 2, "assistant", "output_audio", ""),
     Item("message", 0, "assistant", "output_text", "yo"),
     Item("message", 3, "user", "none", ""),
     Item("message", 4, "user", "input_image", ""),
     Item("function_call", 5, "assistant", "none", "")}

\* a backend id names one item of a snapshot
UniqueIds(raw) ==
    \A i, j \in DOMAIN raw : (raw[i].itemId # 0 /\ raw[i].itemId = raw[j].itemId) => i = j

RecRaws ==
    {raw \in UNION {[1..n -> RecItems] : n \in 0..MaxRaw} : UniqueIds(raw)}

IsExtension(prev, raw) ==
    Len(raw) >= Len(prev) /\ SubSeq(raw, 1, Len(prev)) = prev

\* A connected instance (connect() resolved with UI mode and greeting off) whose
\* session has delivered no transcript yet.
InitRec ==
    /\ cfg = [autoGreet |-> FALSE, ui |-> [enabled |-> FALSE, autoUpdate |-> FALSE]]
    /\ status = "connected"
    /\ conversationState = "idle"
    /\ error = NoError
    /\ history = <<>>
    /\ session = 1
    /\ autoUpdateTimer = FALSE
    /\ intervals = 0
    /\ connectedSince = TRUE
    /\ sess = [s \in SessionIds |->
                 IF s = 1 THEN [phase |-> "open", closed |-> FALSE]
                 ELSE [phase |-> "unused", closed |-> FALSE]]
    /\ pc = [s \in SessionIds |-> IF s = 1 THEN "done" ELSE "none"]
    /\ messageIdCounter = 0
    /\ now = 0
    /\ published = <<>>
    /\ sentNow = <<>>
    /\ lastOp = Op("connect.done", 1, NoCode)
    /\ ret = Void
    /\ rawPrev = <<>>
    /\ appendOnly = TRUE
    /\ BusInit
    /\ ToolInit

\* the session's history_updated event with the snapshot `raw`
RecHistoryUpdated ==
    \E raw \in RecRaws :
        /\ rebuild(raw, 1, messageIdCounter, <<>>, now).counter <= MaxMsgId
        /\ Commit(handleHistoryUpdate(Cur, raw, now),
                  Op("history_updated", session, NoCode), Void)
        /\ rawPrev' = raw
        /\ appendOnly' = (appendOnly /\ IsExtension(rawPrev, raw))
        /\ UNCHANGED <<pc, now, busVars, domVars>>

\* time passes between two events
Tick ==
    /\ now < MaxClock
    /\ now' = now + 1
    /\ Commit(Cur, Op("tick", NoSession, NoCode), Void)
    /\ UNCHANGED <<pc, recVars, busVars, domVars>>

NextRec ==
    \/ RecHistoryUpdated
    \/ Tick

SpecRec == InitRec /\ [][NextRec]_vars

\* ================================================================ claims
\* the fields of the instance
fields == <<status, conversationState, error, history, session, autoUpdateTimer,
            sess, messageIdCounter>>

PublishedNames == {published[i].ev : i \in DOMAIN published}

\* C1: after every handler run, conversationState is idle whenever status is idle
\* or error.
C1_ConversationIdleUnlessConnected ==
    status \in {"idle", "error"} => conversationState = "idle"

\* C2: disconnect() never raises and leaves status idle, conversationState idle,
\* history empty and no session handle; a second disconnect() right after the
\* first leaves every field as it was.
C2_DisconnectTerminalAndIdempotent ==
    [][lastOp'.op = "disconnect" =>
          /\ ret'.kind = "void"
          /\ status' = "idle"
          /\ conversationState' = "idle"
          /\ history' = <<>>
          /\ session' = NoSession
          /\ (lastOp.op = "disconnect" => fields' = fields)]_vars

\* C2 witness: disconnect() has run on a connected instance with a transcript
\* and a turn in progress
C2_Witness ==
    /\ lastOp.op = "disconnect"
    /\ {"statusChange", "conversationStateChange"} \subseteq PublishedNames
    /\ \E s \in SessionIds : sess[s].closed

\* C3: disconnect() with status idle and no session handle changes no field and
\* publishes no event.
C3_DisconnectWhenIdleIsNoOp ==
    [][(lastOp'.op = "disconnect" /\ status = "idle" /\ session = NoSession) =>
          (fields' = fields /\ published' = <<>>)]_vars

\* C10: executeAction on an action whose outputCode is empty or absent returns
\* {success: true, result: null}, runs nothing and changes no field.
C10_EmptyActionSucceedsTrivially ==
    [][(lastOp'.op = "executeAction"
          /\ (~lastOp'.code.present \/ lastOp'.code.text = "")) =>
          /\ ret'.kind = "value"
          /\ ret'.success
          /\ ret'.result = "null"
          /\ ~ret'.ran
          /\ published' = <<>>
          /\ sentNow' = <<>>
          /\ fields' = fields]_vars

\* C10 witness: executeAction has returned for an action with empty instructions
\* on a connected instance
C10_Witness ==
    /\ lastOp.op = "executeAction"
    /\ lastOp.code = Code("")
    /\ ret.success
    /\ status = "connected"

\* the message events among the published events, in order
IsMessageEvent(e) == e.ev = "message"

MessageEvents(pub) == SelectSeq(pub, IsMessageEvent)

IsMessageKind(item) == item.type = "message"

\* a message-kind item whose first content entry exists and is text or audio
IsConvertible(item) ==
    /\ item.type = "message"
    /\ item.ctype \in {"input_text", "output_text", "input_audio", "output_audio"}

\* C4 as claimed: over append-only snapshots, after each history_updated the
\* length of history is the number of message-kind items of the raw list.
C4_LengthIsMessageKindCount ==
    (lastOp.op = "history_updated" /\ appendOnly) =>
        Len(history) = Len(SelectSeq(rawPrev, IsMessageKind))

\* C4 as amended: over append-only snapshots, after each history_updated the
\* length of history is the number of message-kind items of the raw list whose
\* first content entry exists and is of a text or audio kind.
C4_LengthIsConvertibleCount ==
    (lastOp.op = "history_updated" /\ appendOnly) =>
        Len(history) = Len(SelectSeq(rawPrev, IsConvertible))

\* C4 witness: two append-only snapshots, the second appending an item that is
\* kept after one that is skipped
C4_Witness ==
    /\ lastOp.op = "history_updated"
    /\ appendOnly
    /\ Len(rawPrev) = 2
    /\ ~IsConvertible(rawPrev[1]) /\ IsMessageKind(rawPrev[1])
    /\ Len(history) = 1
    /\ Len(MessageEvents(published)) = 1

\* the items the snapshot raw' appends to raw
Appended(raw, rawNew) == SubSeq(rawNew, Len(raw) + 1, Len(rawNew))

\* the events of one history_updated: a message event per item of `items`, in
\* order, then historyChange with the full list, then stateChange
DeltaThenHistoryThenState(pub, items, hist) ==
    /\ Len(pub) = Len(items) + 2
    /\ \A i \in 1..Len(items) :
          /\ pub[i].ev = "message"
          /\ pub[i].args[1].raw = items[i]
          /\ pub[i].args[1] = hist[Len(hist) - Len(items) + i]
    /\ pub[Len(items) + 1].ev = "historyChange"
    /\ pub[Len(items) + 1].args = <<hist>>
    /\ pub[Len(items) + 2].ev = "stateChange"
    /\ pub[Len(items) + 2].args[1].history = hist

\* C5 as claimed: over append-only snapshots, each history_updated publishes one
\* message event per newly appended message-kind item, in list order, then one
\* historyChange with the full list, then one stateChange.
C5_EventsPerAppendedMessageItem ==
    [][(lastOp'.op = "history_updated" /\ appendOnly') =>
          /\ Len(history') >= Len(SelectSeq(Appended(rawPrev, rawPrev'), IsMessageKind))
          /\ DeltaThenHistoryThenState(published',
                 SelectSeq(Appended(rawPrev, rawPrev'), IsMessageKind), history')]_vars

\* C5 as amended: over append-only snapshots, each history_updated publishes one
\* message event per newly appended message-kind item whose first content entry
\* exists and is of a text or audio kind (in list order, none for items already
\* seen), then one historyChange with the full list, then one stateChange.
C5_EventsPerAppendedConvertibleItem ==
    [][(lastOp'.op = "history_updated" /\ appendOnly') =>
          /\ Len(history') >= Len(SelectSeq(Appended(rawPrev, rawPrev'), IsConvertible))
          /\ DeltaThenHistoryThenState(published',
                 SelectSeq(Appended(rawPrev, rawPrev'), IsConvertible), history')]_vars

\* C5 witness: a second append-only snapshot has appended one message to a
\* history of one, and three events were published
C5_Witness ==
    /\ lastOp.op = "history_updated"
    /\ appendOnly
    /\ Len(rawPrev) = 2
    /\ Len(history) = 2
    /\ Len(published) = 3
    /\ published[1].ev = "message"
    /\ published[1].args[1] = history[2]

MessageIds(hist) == {hist[i].id : i \in DOMAIN hist}

\* C6: for any sequence of snapshots, the messages a history_updated publishes a
\* message event for are exactly the messages of the new history whose id was
\* not in the previous history.
C6_MessageEventsAreTheNewIds ==
    [][lastOp'.op = "history_updated" =>
          {e.args[1].id : e \in {published'[i] : i \in
                {j \in DOMAIN published' : published'[j].ev = "message"}}}
              = MessageIds(history') \ MessageIds(history)]_vars

\* ------------------------------------------------------------ C7, C8, C9
IsIn(seq, x) == \E i \in DOMAIN seq : seq[i] = x

\* C7: when a subscriber throws during delivery, the exception does not
\* reach the publisher, and every subscriber registered later for the same
\* event (and still subscribed) is invoked in that publish.
C7_ThrowingListenerIsIsolated ==
    /\ ~propagated
    /\ \A i \in DOMAIN done.invoked :
        done.invoked[i].cb.fn = "thrower" =>
            \A j \in DOMAIN done.entries :
                done.entries[j].stamp > done.invoked[i].stamp =>
                    IsIn(done.invoked, done.entries[j])

\* a finished publish in which the thrower ran and a later subscriber ran
\* after it
C7_Witness ==
    /\ ~propagated
    /\ stack = <<>>
    /\ \E i, j \in DOMAIN done.invoked :
        /\ i < j
        /\ done.invoked[i].cb.fn = "thrower"
        /\ done.invoked[j].stamp > done.invoked[i].stamp
        /\ IsIn(done.entries, done.invoked[j])

\* C8: a callback registered with once() is invoked exactly once over any
\* sequence of publishes of its event, re-entrant publishes included: never
\* twice, and once as soon as its wrapper has left the registry without
\* having been unsubscribed.
C8_OnceCallbackRunsExactlyOnce ==
    \A w \in Wrappers :
        /\ onceCalls[w] <= 1
        /\ (/\ stack = <<>>
            /\ onceOf[w] # NoOnce
            /\ IndexOf(listeners[onceOf[w].ev], Listener("wrapped", w)) = 0
            /\ w \notin cancelled) => onceCalls[w] = 1

\* C9: in one publish each subscribed callback is invoked at most once, and
\* callbacks run in subscription order.
C9_AtMostOncePerPublishInOrder ==
    \A f \in {stack[k] : k \in DOMAIN stack} \cup {done} :
        \A i, j \in DOMAIN f.invoked :
            i < j => /\ f.invoked[i].cb # f.invoked[j].cb
                     /\ f.invoked[i].stamp < f.invoked[j].stamp

\* ------------------------------------------------------------------- C11
\* C11: when the instructions run by executeAction raise, executeAction
\* returns {success: false, error} and does not raise; status,
\* conversationState, error and history are unchanged and no event is
\* published.
C11_FailedActionIsReported ==
    /\ \A code \in OutputCodes, outcome \in RunOutcomes :
        (~Falsy(code) /\ outcome.threw) =>
            LET r == executeAction(code, outcome)
            IN  r.kind = "value" /\ ~r.success /\ r.error # ""
    /\ [][lastOp'.op = "executeAction" =>
             /\ ret'.kind = "value"
             /\ (~ret'.success =>
                    /\ ret'.ran
                    /\ ret'.error \in {"boom", "Unknown error"}
                    /\ <<status', conversationState', error', history'>>
                         = <<status, conversationState, error, history>>
                    /\ published' = <<>>)]_vars

\* C11 witness: executeAction has reported a failed run on a connected
\* instance
C11_Witness ==
    /\ lastOp.op = "executeAction"
    /\ lastOp.code = Code("click()")
    /\ ret.kind = "value"
    /\ ret.ran
    /\ ~ret.success
    /\ status = "connected"

\* ------------------------------------------------------- C12 .. C15
\* C12: with UI mode disabled the tool set given to the agent is empty and
\* no action event is ever published.
C12_NoToolsNoActionWhenUIDisabled ==
    ~cfg.ui.enabled =>
        /\ tools = {}
        /\ actionIdCounter = 0
        /\ "action" \notin PublishedNames

\* C12 witness: an instance with UI mode disabled on which the host has run
\* an action by hand
C12_Witness ==
    /\ ~cfg.ui.enabled
    /\ tools = {}
    /\ lastOp.op = "executeAction"
    /\ ret.ran

\* C13: with doNotExecuteActions set, every call of the action tool
\* publishes the action event with the action, runs nothing and returns the
\* explanation text alone; instructions run only in a host call of
\* executeAction.
C13_NoAutoExecution ==
    [][doNotExecuteActions =>
          /\ (lastOp'.op = "tool.run" =>
                 /\ published' = <<[ev |-> "action",
                                    args |-> <<[id |-> actionIdCounter',
                                                code |-> lastOp'.code]>>]>>
                 /\ ~ret'.ran
                 /\ ret' = Result("text", TRUE, "outputText", "", FALSE)
                 /\ tool'.pc = "idle")
          /\ (ret'.ran => lastOp'.op = "executeAction")]_vars

\* C13 witness: the tool was called with instructions while auto-execution
\* was off, and the host then ran them with executeAction
C13_Witness ==
    /\ doNotExecuteActions
    /\ actionIdCounter > 0
    /\ lastOp.op = "executeAction"
    /\ lastOp.code = Code("click()")
    /\ ret.ran

\* C14: when auto-execution is on and running the instructions fails, the
\* action tool returns the explanation text annotated with the failure
\* reason, in Aven and in Atticus.
C14_FailureAnnotatedInBothProfiles ==
    [][(lastOp'.op = "tool.run" /\ ret'.ran /\ ~ret'.success) =>
          (ret'.result = "outputText+failed" /\ ret'.error # "")]_vars

\* C15: in Atticus, the page text the action tool returns after a
\* successful action comes from a capture that started after the
\* instructions ran.
C15_ReturnedTextIsPostAction ==
    [][lastOp'.op = "tool.return" => tool'.dom = "fresh"]_vars

\* ------------------------------------------------------- C16 .. C20
\* C16: when the external session's connect fails during connect(), status
\* becomes error, the failure text is stored in error, an error event with
\* that text is published, and connect() raises the failure to its caller.
C16_ConnectFailureSurfaces ==
    [][\A s \in SessionIds :
          (pc[s] = "awaitConnect" /\ pc'[s] = "done"
              /\ sess'[s].phase = "failed") =>
              \E e \in RejectReasons :
                  /\ ret' = Raised(e)
                  /\ status' = "error"
                  /\ error' = connectErrorMessage(e)
                  /\ \E i \in DOMAIN published' :
                         /\ published'[i].ev = "error"
                         /\ published'[i].args = <<connectErrorMessage(e)>>]_vars

\* C16 witness: connect() has raised the transport's failure
C16_Witness ==
    /\ lastOp.op = "connect.done"
    /\ ret.kind = "raise"
    /\ sess[lastOp.sid].phase = "failed"
    /\ status = "error"
    /\ error = "connect failed"

\* C17: after a connect() that failed (status error), a connect() or
\* toggle() by the caller starts a new attempt: status becomes connecting,
\* the error is cleared and a new external session is opened.
C17_RetryAfterFailureConnects ==
    [][(status = "error" /\ lastOp'.op \in {"connect", "toggle"}) =>
          /\ status' = "connecting"
          /\ error' = NoError
          /\ lastOp'.sid # NoSession
          /\ session' = lastOp'.sid
          /\ sess[lastOp'.sid].phase = "unused"
          /\ sess'[lastOp'.sid].phase # "unused"]_vars

\* C18: after disconnect() returns and after destroy() returns, the
\* auto-update timer is disarmed and the session handle is closed and
\* discarded.
C18_TeardownStopsTimerAndSession ==
    [][lastOp'.op \in {"disconnect", "destroy"} =>
          /\ ~autoUpdateTimer'
          /\ session' = NoSession
          /\ (session # NoSession => sess'[session].closed)]_vars

\* C19: the stored error is none unless status is error.
C19_ErrorOnlyInErrorStatus ==
    status # "error" => error = NoError

\* C20: a handler that changes status, conversationState, error or history
\* publishes, after the change, a stateChange event that carries the new
\* values.
C20_StateChangeFollowsEveryChange ==
    [][<<status', conversationState', error', history'>>
          # <<status, conversationState, error, history>> =>
          \E i \in DOMAIN published' :
              /\ published'[i].ev = "stateChange"
              /\ \A j \in DOMAIN published' :
                     j > i => published'[j].ev # "stateChange"
              /\ published'[i].args =
                     <<getState([status |-> status',
                                 conversationState |-> conversationState',
                                 error |-> error',
                                 history |-> history',
                                 session |-> session'])>>]_vars

\* ------------------------------------------------------- C21 .. C30
\* the operations the caller invokes, and the steps that deliver a result or
\* an event of external session lastOp.sid
CallerOps == {"connect", "toggle", "disconnect", "destroy"}
SessionOps == {"connect.connected", "connect.done", "agent_start", "agent_end",
               "audio", "error", "history_updated"}

\* C23: every change of status is one of connecting->connected,
\* connecting->error and connected->error, or is made by the caller: a
\* connect() or toggle() that moves idle or error to connecting, or a
\* disconnect(), toggle() or destroy() that moves to idle; no step other than
\* the caller's moves status out of error.
C23_StatusEdges ==
    [][status' # status =>
          \/ /\ lastOp'.op \in {"connect", "toggle"}
             /\ status \in {"idle", "error"}
             /\ status' = "connecting"
          \/ /\ lastOp'.op \in {"disconnect", "toggle", "destroy"}
             /\ status' = "idle"
          \/ /\ lastOp'.op \notin CallerOps
             /\ <<status, status'>> \in {<<"connecting", "connected">>,
                                         <<"connecting", "error">>,
                                         <<"connected", "error">>}]_vars

\* C24: a connect completion, turn signal, transcript update or session error
\* of a session that disconnect() or destroy() has closed leaves status,
\* conversationState, error and history as they were and publishes nothing.
C24_ClosedSessionIsIgnored ==
    [][(lastOp'.op \in SessionOps /\ sess[lastOp'.sid].closed) =>
          /\ UNCHANGED <<status, conversationState, error, history>>
          /\ published' = <<>>]_vars

\* C21: an instance is produced only from a configuration that holds both
\* the connection credential and the agent persona; without either the
\* constructor raises and no instance in status idle exists.
C21_ConstructionRequiresCredentialAndAgent ==
    (made = "yes" /\ status = "idle") => (given.clientSecret /\ given.agent)

\* the steps of the surface captures: updateDOM, the auto-update timer and
\* execute_ui_action with its captures
CaptureOps == {"updateDOM", "updateDOM.string", "timer", "captured",
               "tool.invoke", "tool.run", "tool.captured", "tool.return"}

\* C22: no step of a surface capture sends a message to the session; every
\* message sent is the text of the caller's sendMessage() or the greeting of
\* connect().
C22_CapturesNeverSend ==
    [][/\ lastOp'.op \in CaptureOps => sentNow' = <<>>
       /\ \A i \in DOMAIN sentNow' :
              \/ lastOp'.op = "sendMessage" /\ sentNow'[i].kind = "text"
              \/ lastOp'.op = "connect.done" /\ sentNow'[i].kind = "greeting"]_vars

\* C22 witness: updateDOM has stored a capture on a connected instance and
\* nothing was sent
C22_Witness ==
    /\ lastOp.op = "captured"
    /\ session # NoSession
    /\ currentDOM # NoDOM
    /\ sentNow = <<>>

\* the last handler run sent a greeting
GreetingSent(sent) == \E j \in DOMAIN sent : sent[j].kind = "greeting"

\* C25: connect() reaches its await of the initial capture only after it has
\* set status connected and published the connected event, and sends nothing
\* on the way; with UI mode on a greeting is sent only by the resumption from
\* that await, with the capture stored; with UI mode off it is sent after the
\* connected event of the same resumption, with status connected.
C25_ConnectedThenCaptureThenGreeting ==
    [][\A s \in SessionIds :
          /\ (pc[s] # "awaitDOM" /\ pc'[s] = "awaitDOM") =>
                 /\ pc[s] = "awaitConnect"
                 /\ status' = "connected"
                 /\ \E i \in DOMAIN published' : published'[i].ev = "connected"
                 /\ sentNow' = <<>>
          /\ (lastOp'.op = "connect.done" /\ lastOp'.sid = s
                /\ GreetingSent(sentNow')) =>
                 IF cfg.ui.enabled
                 THEN /\ pc[s] = "awaitDOM"
                      /\ currentDOM' = "fresh"
                 ELSE /\ status' = "connected"
                      /\ \A j \in DOMAIN sentNow' :
                             \E i \in DOMAIN published' :
                                 /\ published'[i].ev = "connected"
                                 /\ i <= sentNow'[j].after]_vars

\* C25 witness: a connect() with UI mode on has sent its greeting, connected
\* and with the initial capture stored
C25_Witness ==
    /\ lastOp.op = "connect.done"
    /\ cfg.ui.enabled
    /\ GreetingSent(sentNow)
    /\ sentNow[1].to = lastOp.sid
    /\ status = "connected"
    /\ currentDOM = "fresh"

\* C26: a greeting is sent only when auto-greet is enabled, and only to a
\* session whose own connect has completed.
C26_GreetingOnlyToConnectedSession ==
    [][\A i \in DOMAIN sentNow' :
          sentNow'[i].kind = "greeting" =>
              /\ cfg.autoGreet
              /\ sess'[sentNow'[i].to].phase = "open"]_vars

\* C27: when connect() or toggle() moves status to connecting, every
\* stateChange event published by that call carries error = none.
C27_ConnectingCarriesNoError ==
    [][(lastOp'.op \in {"connect", "toggle"} /\ status # "connecting"
          /\ status' = "connecting") =>
          \A i \in DOMAIN published' :
              published'[i].ev = "stateChange" =>
                  published'[i].args[1].error = NoError]_vars

\* the positions of the action events among the events of the last handler run
ActionEvents(pub) == {i \in DOMAIN pub : pub[i].ev = "action"}

TurnEdges ==
    {<<"idle", "user_turn">>,
     <<"user_turn", "user_speaking">>, <<"user_speaking", "user_turn">>,
     <<"user_turn", "ai_speaking">>, <<"ai_speaking", "user_turn">>}

\* C29: conversationState changes only along the edges idle->user_turn,
\* user_turn<->user_speaking and user_turn<->ai_speaking while status is and
\* stays connected, or to idle in a step that moves status to idle or error.
C29_TurnEdges ==
    [][conversationState' # conversationState =>
          \/ /\ status = "connected"
             /\ status' = "connected"
             /\ <<conversationState, conversationState'>> \in TurnEdges
          \/ /\ status' # status
             /\ status' \in {"idle", "error"}
             /\ conversationState' = "idle"]_vars

ChangeThenState(pub, i, name, v, field) ==
    /\ i \in DOMAIN pub
    /\ i + 1 \in DOMAIN pub
    /\ pub[i].ev = name
    /\ pub[i].args = <<v>>
    /\ pub[i + 1].ev = "stateChange"
    /\ pub[i + 1].args[1][field] = v

\* C31: a handler that changes status publishes a statusChange with the new
\* value and then a stateChange; a handler that changes conversationState
\* publishes a conversationStateChange with the new value and then a
\* stateChange.
C31_ChangeEventsThenStateChange ==
    [][/\ status' # status =>
            \E i \in DOMAIN published' :
                ChangeThenState(published', i, "statusChange", status', "status")
       /\ conversationState' # conversationState =>
            \E i \in DOMAIN published' :
                ChangeThenState(published', i, "conversationStateChange",
                                conversationState', "conversationState")]_vars

\* C31 witness: a disconnect() has changed both status and conversationState
\* and published both pairs of events
C31_Witness ==
    /\ lastOp.op = "disconnect"
    /\ status = "idle"
    /\ conversationState = "idle"
    /\ \E i \in DOMAIN published :
           ChangeThenState(published, i, "statusChange", "idle", "status")
    /\ \E i \in DOMAIN published :
           ChangeThenState(published, i, "conversationStateChange", "idle",
                           "conversationState")

\* C32: when a transcript snapshot extends the previous one, every message
\* already in history stays at its position with the same id and the same
\* timestamp.
C32_ReconciledMessagesAreStable ==
    [][(lastOp'.op = "history_updated" /\ IsExtension(rawPrev, rawPrev')) =>
          \A i \in DOMAIN history :
              /\ i \in DOMAIN history'
              /\ history'[i].id = history[i].id
              /\ history'[i].timestamp = history[i].timestamp]_vars

\* C33: at most one interval is armed, and it is the one the field holds;
\* startAutoUpdate() while the timer is armed and stopAutoUpdate() while none
\* is armed change nothing and publish nothing.
C33_AtMostOneTimer ==
    [][/\ intervals' <= 1
       /\ autoUpdateTimer' <=> intervals' = 1
       /\ (lastOp'.op = "startAutoUpdate" /\ autoUpdateTimer) =>
              /\ UNCHANGED <<fields, intervals>>
              /\ published' = <<>>
       /\ (lastOp'.op = "stopAutoUpdate" /\ ~autoUpdateTimer) =>
              /\ UNCHANGED <<fields, intervals>>
              /\ published' = <<>>
       /\ lastOp'.op = "startAutoUpdate" => autoUpdateTimer'
       /\ lastOp'.op = "stopAutoUpdate" => ~autoUpdateTimer']_vars

\* C33 witness: startAutoUpdate() has returned on an instance whose connect()
\* had armed the timer, the timer that then outlived a disconnect()
C33_Witness ==
    /\ lastOp.op = "startAutoUpdate"
    /\ cfg.ui.autoUpdate
    /\ \E s \in SessionIds : pc[s] = "done" /\ sess[s].closed
    /\ autoUpdateTimer
    /\ intervals = 1

\* C34: whenever status is connected a session handle exists.
C34_ConnectedHasSession ==
    status = "connected" => session # NoSession

\* the external sessions created and not yet closed
OpenSessions(ss) ==
    {s \in SessionIds : ss[s].phase # "unused" /\ ~ss[s].closed}

\* the step created no external session
NoSessionCreated ==
    \A s \in SessionIds : sess[s].phase = "unused" => sess'[s].phase = "unused"

\* C35 as stated: at most one external session is created and not yet
\* closed, and a connect() or toggle() issued while a session handle exists
\* or while another connect() is in flight creates no session.
C35_NoSessionWhileConnectInFlight ==
    [][/\ Cardinality(OpenSessions(sess')) <= 1
       /\ (/\ lastOp'.op \in {"connect", "toggle"}
           /\ \/ session # NoSession
              \/ \E s \in SessionIds : pc[s] \in {"awaitConnect", "awaitDOM"})
              => NoSessionCreated]_vars

\* C35, amended: at most one external session is created and not yet
\* closed, and a connect() or toggle() issued while a session handle exists
\* creates no session.
C35_AtMostOneOpenSession ==
    [][/\ Cardinality(OpenSessions(sess')) <= 1
       /\ (lastOp'.op \in {"connect", "toggle"} /\ session # NoSession)
              => NoSessionCreated]_vars

\* C35 witness: a connect() issued while the handle of a connecting session
\* exists has returned without creating anything
C35_Witness ==
    /\ lastOp.op = "connect"
    /\ lastOp.sid = NoSession
    /\ session # NoSession
    /\ pc[session] = "awaitConnect"
    /\ OpenSessions(sess) = {session}

\* C36: a connected event is never published after another connected event
\* without a disconnected event between the two.
C36_ConnectedOncePerConnection ==
    [][~connectedRun(published', 1, connectedSince).twice]_vars

\* C37: when the first thing to happen after destroy() has returned is the
\* completion of a connect() that was in flight, the instance is still torn
\* down after it: status idle, no session handle, no timer armed.
C37_DestroyedStaysTornDown ==
    [][(lastOp.op = "destroy"
          /\ lastOp'.op \in {"connect.connected", "connect.done"}) =>
          /\ status' = "idle"
          /\ session' = NoSession
          /\ ~autoUpdateTimer'
          /\ intervals' = 0]_vars

\* C38: every stateChange payload has conversationState idle when its status
\* is idle or error, and has isConnected true only when its status is
\* connected.
C38_StateChangePayloadConsistent ==
    [][\A i \in DOMAIN published' :
          published'[i].ev = "stateChange" =>
              LET state == published'[i].args[1]
              IN  /\ state.status \in {"idle", "error"} =>
                         state.conversationState = "idle"
                  /\ state.isConnected => state.status = "connected"]_vars

\* C39: sendMessage(text) in a status other than connected sends nothing and
\* does not raise; in status connected with a session handle it sends the
\* text.
C39_SendOnlyWhileConnected ==
    [][lastOp'.op = "sendMessage" =>
          IF status = "connected"
          THEN session # NoSession =>
                   \/ ret'.kind = "raise"
                   \/ /\ Len(sentNow') = 1
                      /\ sentNow'[1].kind = "text"
          ELSE /\ sentNow' = <<>>
               /\ ret'.kind # "raise"]_vars

\* C40: every publish terminates: an emit() in progress returns, whatever
\* its callbacks unsubscribe and subscribe on the way.
C40_EveryPublishTerminates ==
    (stack # <<>>) ~> (stack = <<>>)
====
